---------------------------- MODULE Spec2Model ----------------------------
(***************************************************************************)
(* The English text frontend of the TTS repository: text normalization     *)
(* (src/text/en/normalization.py) and the symbol encoder                   *)
(* (src/text/en/processor.py).                                             *)
(*                                                                         *)
(* A Python string is a sequence of one-character strings.  A regular      *)
(* expression is modelled by the match it finds: leftmost start, greedy or *)
(* lazy as written, and re.sub's left-to-right scan over non-overlapping   *)
(* matches.                                                                *)
(***************************************************************************)
EXTENDS Integers, Sequences, FiniteSets, TLC

VARIABLES
  pc,         \* position of the running call
  raw,        \* the argument the call was made with
  text,       \* the local variable `text` of the running call
  cmudict,    \* the pronunciation dictionary passed to text_to_sequence
  draws,      \* the outcomes of random() < 0.5, one per token of the mixer
  normalized, \* the text normalize_text returned
  stages,     \* the functions normalize_text has called, in order
  mixed,      \* the text mix_pronunciation returned
  sequence,   \* the local variable `sequence` of text_to_sequence
  symbols,    \* the module-level list `symbols` of the process
  symbols2,   \* the list `symbols` of a second, independent process
  num,        \* the integer handed to _expand_number
  out         \* the value the last function call returned

vars ==
  <<pc, raw, text, cmudict, draws, normalized, stages, mixed, sequence, symbols, symbols2,
    num, out>>

-----------------------------------------------------------------------------
(* Characters and character classes of Python's re module.                 *)

lower_letters ==
  <<"a","b","c","d","e","f","g","h","i","j","k","l","m","n","o","p","q","r","s","t","u","v","w","x","y","z">>

upper_letters ==
  <<"A","B","C","D","E","F","G","H","I","J","K","L","M","N","O","P","Q","R","S","T","U","V","W","X","Y","Z">>

Range(s) == { s[i] : i \in 1..Len(s) }

Digits == {"0","1","2","3","4","5","6","7","8","9"}

\* [0-9]
IsDigit(c) == c \in Digits

\* \s
IsSpace(c) == c \in {" ", "\t", "\n", "\r"}

WordChars == Range(lower_letters) \cup Range(upper_letters) \cup Digits \cup {"_"}

\* \w
IsWordChar(c) == c \in WordChars

UpperOf == [c \in Range(lower_letters) |-> upper_letters[CHOOSE i \in 1..26 : lower_letters[i] = c]]

LowerOf == [c \in Range(upper_letters) |-> lower_letters[CHOOSE i \in 1..26 : upper_letters[i] = c]]

\* str.upper(), one character
UpperChar(c) == IF c \in DOMAIN UpperOf THEN UpperOf[c] ELSE c

\* str.lower(), one character: what re.IGNORECASE compares
LowerChar(c) == IF c \in DOMAIN LowerOf THEN LowerOf[c] ELSE c

\* str.upper()
Upper(s) == [i \in 1..Len(s) |-> UpperChar(s[i])]

-----------------------------------------------------------------------------
(* String helpers.                                                         *)

\* the characters of s from index i to its end
From(s, i) == SubSeq(s, i, Len(s))

\* s starts, at index i, with the characters of p
StartsAt(s, i, p) ==
  /\ i >= 1
  /\ i + Len(p) - 1 <= Len(s)
  /\ \A k \in 1..Len(p) : s[i + k - 1] = p[k]

EndsWith(s, p) == Len(p) <= Len(s) /\ StartsAt(s, Len(s) - Len(p) + 1, p)

\* the last index j >= i such that all of s[i..j] satisfy P; i - 1 when s[i] does not
RunEnd(s, i, P(_)) ==
  CHOOSE j \in (i - 1)..Len(s) :
    /\ \A k \in i..j : P(s[k])
    /\ j = Len(s) \/ ~P(s[j + 1])

\* re.sub(pattern, repl, s): MatchEnd(s, i) is the last index of the pattern's
\* match starting at i, or 0 when the pattern does not match there
ReSub(s, MatchEnd(_, _), Repl(_)) ==
  LET scan[i \in 1..(Len(s) + 1)] ==
        IF i > Len(s) THEN <<>>
        ELSE LET e == MatchEnd(s, i)
             IN  IF e = 0
                 THEN <<s[i]>> \o scan[i + 1]
                 ELSE Repl(SubSeq(s, i, e)) \o scan[e + 1]
  IN  scan[1]

\* the matches re.sub visits, in order
ReMatches(s, MatchEnd(_, _)) ==
  LET scan[i \in 1..(Len(s) + 1)] ==
        IF i > Len(s) THEN <<>>
        ELSE LET e == MatchEnd(s, i)
             IN  IF e = 0
                 THEN scan[i + 1]
                 ELSE <<SubSeq(s, i, e)>> \o scan[e + 1]
  IN  scan[1]

\* str.replace(old, new), old non-empty
RECURSIVE Replace(_, _, _)
Replace(s, old, new) ==
  IF s = <<>> THEN <<>>
  ELSE IF StartsAt(s, 1, old)
       THEN new \o Replace(From(s, Len(old) + 1), old, new)
       ELSE <<s[1]>> \o Replace(Tail(s), old, new)

\* str.split(sep), sep one character: every separator ends an item
RECURSIVE Split(_, _)
Split(s, sep) ==
  IF \A i \in 1..Len(s) : s[i] # sep THEN <<s>>
  ELSE LET k == CHOOSE i \in 1..Len(s) : s[i] = sep /\ \A j \in 1..(i - 1) : s[j] # sep
       IN  <<SubSeq(s, 1, k - 1)>> \o Split(From(s, k + 1), sep)

\* str.split(): runs of whitespace separate, no empty items
RECURSIVE SplitWhitespace(_)
SplitWhitespace(s) ==
  IF s = <<>> THEN <<>>
  ELSE IF IsSpace(s[1]) THEN SplitWhitespace(Tail(s))
       ELSE LET e == RunEnd(s, 1, LAMBDA c : ~IsSpace(c))
            IN  <<SubSeq(s, 1, e)>> \o SplitWhitespace(From(s, e + 1))

\* sep.join(items)
RECURSIVE Join(_, _)
Join(items, sep) ==
  IF items = <<>> THEN <<>>
  ELSE IF Len(items) = 1 THEN items[1]
       ELSE items[1] \o sep \o Join(Tail(items), sep)

\* str.strip()
RECURSIVE Strip(_)
Strip(s) ==
  IF s = <<>> THEN s
  ELSE IF IsSpace(s[1]) THEN Strip(Tail(s))
       ELSE IF IsSpace(s[Len(s)]) THEN Strip(SubSeq(s, 1, Len(s) - 1))
            ELSE s

\* int(s), s a string of decimal digits
DigitValue(c) == CHOOSE d \in 0..9 : <<"0","1","2","3","4","5","6","7","8","9">>[d + 1] = c

RECURSIVE ParseInt(_)
ParseInt(s) ==
  IF s = <<>> THEN 0
  ELSE 10 * ParseInt(SubSeq(s, 1, Len(s) - 1)) + DigitValue(s[Len(s)])

\* str(n) for an integer n >= 0
RECURSIVE IntToStr(_)
IntToStr(n) ==
  LET d == <<<<"0","1","2","3","4","5","6","7","8","9">>[(n % 10) + 1]>>
  IN  IF n < 10 THEN d ELSE IntToStr(n \div 10) \o d

-----------------------------------------------------------------------------
(* inflect.engine().number_to_words, the library call behind                *)
(* _expand_ordinal and _expand_number: its tables unit, teen, ten, mill,    *)
(* its enword (the digit groups turned into words) and the rewriting of     *)
(* the chunk that number_to_words does afterwards.                          *)

unit ==
  << <<"o","n","e">>,
     <<"t","w","o">>,
     <<"t","h","r","e","e">>,
     <<"f","o","u","r">>,
     <<"f","i","v","e">>,
     <<"s","i","x">>,
     <<"s","e","v","e","n">>,
     <<"e","i","g","h","t">>,
     <<"n","i","n","e">> >>

teen ==
  << <<"t","e","n">>,
     <<"e","l","e","v","e","n">>,
     <<"t","w","e","l","v","e">>,
     <<"t","h","i","r","t","e","e","n">>,
     <<"f","o","u","r","t","e","e","n">>,
     <<"f","i","f","t","e","e","n">>,
     <<"s","i","x","t","e","e","n">>,
     <<"s","e","v","e","n","t","e","e","n">>,
     <<"e","i","g","h","t","e","e","n">>,
     <<"n","i","n","e","t","e","e","n">> >>

ten ==
  << <<"t","w","e","n","t","y">>,
     <<"t","h","i","r","t","y">>,
     <<"f","o","r","t","y">>,
     <<"f","i","f","t","y">>,
     <<"s","i","x","t","y">>,
     <<"s","e","v","e","n","t","y">>,
     <<"e","i","g","h","t","y">>,
     <<"n","i","n","e","t","y">> >>

mill ==
  << <<" ">>,
     <<" ","t","h","o","u","s","a","n","d">>,
     <<" ","m","i","l","l","i","o","n">>,
     <<" ","b","i","l","l","i","o","n">> >>

zero_word == <<"z","e","r","o">>
oh_word == <<"o","h">>
and_word == <<"a","n","d">>

\* unit[units], "" for 0
UnitWord(units) == IF units = 0 THEN <<>> ELSE unit[units]

\* ten[tens], "" for 0 and 1
TenWord(tens) == IF tens < 2 THEN <<>> ELSE ten[tens - 1]

millfn(mindex) == mill[mindex + 1]

unitfn(units, mindex) == UnitWord(units) \o millfn(mindex)

tenfn(tens, units, mindex) ==
  IF tens # 1
  THEN TenWord(tens) \o (IF tens # 0 /\ units # 0 THEN <<"-">> ELSE <<>>)
         \o UnitWord(units) \o millfn(mindex)
  ELSE teen[units + 1] \o mill[mindex + 1]

hundfn(hundreds, tens, units, mindex, andword) ==
  IF hundreds # 0
  THEN UnitWord(hundreds) \o <<" ","h","u","n","d","r","e","d">>
         \o (IF tens # 0 \/ units # 0 THEN <<" ">> \o andword \o <<" ">> ELSE <<>>)
         \o tenfn(tens, units, 0) \o millfn(mindex) \o <<",", " ">>
  ELSE IF tens # 0 \/ units # 0
       THEN tenfn(tens, units, 0) \o millfn(mindex) \o <<",", " ">>
       ELSE <<>>

\* enword with group = 0, for n >= 2: three digits at a time from the right
\* (hundsub), then the two (tensub) or one (unitsub) digits left
RECURSIVE enword0(_, _, _)
enword0(n, mill_count, andword) ==
  IF n = 0 THEN <<>>
  ELSE IF n >= 100
       THEN enword0(n \div 1000, mill_count + 1, andword)
              \o hundfn((n % 1000) \div 100, (n % 100) \div 10, n % 10, mill_count, andword)
       ELSE IF n >= 10
            THEN tenfn(n \div 10, n % 10, mill_count) \o <<",", " ">>
            ELSE unitfn(n, mill_count) \o <<",", " ">>

\* group2sub: one pair of digits
group2sub(tens, units, zero) ==
  IF tens # 0 THEN tenfn(tens, units, 0) \o <<",", " ">>
  ELSE IF units # 0 THEN <<" ">> \o zero \o <<" ">> \o unit[units] \o <<",", " ">>
       ELSE <<" ">> \o zero \o <<" ">> \o zero \o <<",", " ">>

\* group1bsub: a single digit left over
group1bsub(units, zero) ==
  IF units # 0 THEN unit[units] \o <<",", " ">> ELSE <<" ">> \o zero \o <<",", " ">>

\* enword with group = 2 on the digit string d: pairs from the left
RECURSIVE enword2(_, _)
enword2(d, zero) ==
  IF d = <<>> THEN <<>>
  ELSE IF Len(d) = 1 THEN group1bsub(DigitValue(d[1]), zero)
       ELSE group2sub(DigitValue(d[1]), DigitValue(d[2]), zero) \o enword2(From(d, 3), zero)

\* re.sub(r"\s+", " ", s)
CollapseRuns(s) ==
  ReSub(s, LAMBDA t, i : IF IsSpace(t[i]) THEN RunEnd(t, i, IsSpace) ELSE 0,
           LAMBDA m : <<" ">>)

\* WHITESPACES_COMMA.sub(",", s): r"\s+,"
SpacesCommaSub(s) ==
  ReSub(s, LAMBDA t, i :
             IF IsSpace(t[i])
             THEN LET e == RunEnd(t, i, IsSpace)
                  IN  IF e < Len(t) /\ t[e + 1] = "," THEN e + 1 ELSE 0
             ELSE 0,
           LAMBDA m : <<",">>)

\* COMMA_WORD.sub(" <andword> \1", s): r", (\S+)\s+\Z", the last ", word " of s
CommaWordSub(s, andword) ==
  LET Ends(p) ==
        /\ p + 3 <= Len(s)
        /\ s[p] = "," /\ s[p + 1] = " "
        /\ ~IsSpace(s[p + 2])
        /\ LET w == RunEnd(s, p + 2, LAMBDA c : ~IsSpace(c))
           IN  w < Len(s) /\ RunEnd(s, w + 1, IsSpace) = Len(s)
  IN  IF \E p \in 1..Len(s) : Ends(p)
      THEN LET p == CHOOSE q \in 1..Len(s) : Ends(q) /\ \A r \in 1..(q - 1) : ~Ends(r)
               w == RunEnd(s, p + 2, LAMBDA c : ~IsSpace(c))
           IN  SubSeq(s, 1, p - 1) \o <<" ">> \o andword \o <<" ">> \o SubSeq(s, p + 2, w)
      ELSE s

\* chunk[:-2] when the chunk ends in ", "
DropFinalComma(s) ==
  IF EndsWith(s, <<",", " ">>) THEN SubSeq(s, 1, Len(s) - 2) ELSE s

\* number_to_words(n, andword=andword): group = 0
number_to_words(n, andword) ==
  IF n = 0 THEN zero_word
  ELSE IF n = 1 THEN unit[1]
       ELSE Strip(CollapseRuns(CommaWordSub(SpacesCommaSub(DropFinalComma(
              enword0(n, 0, andword))), andword)))

\* number_to_words(n, andword='', zero=zero, group=2)
number_to_words_group2(n, zero) ==
  Strip(CollapseRuns(SpacesCommaSub(DropFinalComma(enword2(IntToStr(n), zero)))))

\* the table `ordinal` and the pattern ordinal_suff of inflect
ordinal ==
  << << <<"t","y">>, <<"t","i","e","t","h">> >>,
     << <<"o","n","e">>, <<"f","i","r","s","t">> >>,
     << <<"t","w","o">>, <<"s","e","c","o","n","d">> >>,
     << <<"t","h","r","e","e">>, <<"t","h","i","r","d">> >>,
     << <<"f","i","v","e">>, <<"f","i","f","t","h">> >>,
     << <<"e","i","g","h","t">>, <<"e","i","g","h","t","h">> >>,
     << <<"n","i","n","e">>, <<"n","i","n","t","h">> >>,
     << <<"t","w","e","l","v","e">>, <<"t","w","e","l","f","t","h">> >> >>

\* number_to_words("<n>th"): the cardinal words with the last word made ordinal
ordinal_words(n) ==
  LET w == number_to_words(n, and_word)
  IN  IF \E k \in 1..Len(ordinal) : EndsWith(w, ordinal[k][1])
      THEN LET k == CHOOSE j \in 1..Len(ordinal) :
                      /\ EndsWith(w, ordinal[j][1])
                      /\ \A l \in 1..Len(ordinal) :
                           EndsWith(w, ordinal[l][1]) => Len(ordinal[l][1]) <= Len(ordinal[j][1])
           IN  SubSeq(w, 1, Len(w) - Len(ordinal[k][1])) \o ordinal[k][2]
      ELSE w \o <<"t","h">>

-----------------------------------------------------------------------------
(* src/text/en/normalization.py                                            *)

IsDigitOrComma(c) == IsDigit(c) \/ c = ","

IsDigitDotOrComma(c) == IsDigit(c) \/ c = "." \/ c = ","

\* the last digit of s[from..to], 0 when there is none
LastDigit(s, from, to) ==
  IF \E k \in from..to : IsDigit(s[k])
  THEN CHOOSE k \in from..to : IsDigit(s[k]) /\ \A j \in (k + 1)..to : ~IsDigit(s[j])
  ELSE 0

\* _comma_number_re = r'([0-9][0-9\,]+[0-9])'
_comma_number_re(s, i) ==
  IF IsDigit(s[i]) THEN LastDigit(s, i + 2, RunEnd(s, i, IsDigitOrComma)) ELSE 0

\* _decimal_number_re = r'([0-9]+\.[0-9]+)'
_decimal_number_re(s, i) ==
  IF IsDigit(s[i])
  THEN LET e == RunEnd(s, i, IsDigit)
       IN  IF e + 2 <= Len(s) /\ s[e + 1] = "." /\ IsDigit(s[e + 2])
           THEN RunEnd(s, e + 2, IsDigit)
           ELSE 0
  ELSE 0

\* _pounds_re = r'£([0-9\,]*[0-9]+)'
_pounds_re(s, i) ==
  IF s[i] = "£" THEN LastDigit(s, i + 1, RunEnd(s, i + 1, IsDigitOrComma)) ELSE 0

\* _dollars_re = r'\$([0-9\.\,]*[0-9]+)'
_dollars_re(s, i) ==
  IF s[i] = "$" THEN LastDigit(s, i + 1, RunEnd(s, i + 1, IsDigitDotOrComma)) ELSE 0

\* _ordinal_re = r'[0-9]+(st|nd|rd|th)'
_ordinal_re(s, i) ==
  IF IsDigit(s[i])
  THEN LET e == RunEnd(s, i, IsDigit)
       IN  IF \E suffix \in {<<"s","t">>, <<"n","d">>, <<"r","d">>, <<"t","h">>} :
                StartsAt(s, e + 1, suffix)
           THEN e + 2
           ELSE 0
  ELSE 0

\* a variant of _number_re: r'[1-9]+'
_number_re_nonzero(s, i) ==
  IF IsDigit(s[i]) /\ s[i] # "0"
  THEN RunEnd(s, i, LAMBDA c : IsDigit(c) /\ c # "0")
  ELSE 0

\* _number_re = r'[0-9]+'
_number_re(s, i) == IF IsDigit(s[i]) THEN RunEnd(s, i, IsDigit) ELSE 0

\* a variant of _remove_commas: the match is returned as it came
_remove_commas_kept(m) == m

\* m.group(1).replace(',', '')
_remove_commas(m) == SelectSeq(m, LAMBDA c : c # ",")

\* m.group(1).replace('.', ' point ')
_expand_decimal_point(m) == Replace(m, <<".">>, <<" ","p","o","i","n","t"," ">>)

\* r'\1 pounds'
PoundsRepl(m) == Tail(m) \o <<" ","p","o","u","n","d","s">>

\* int(part) raises ValueError: the part is not empty and holds a comma
IntRaises(part) == part # <<>> /\ \E k \in 1..Len(part) : part[k] = ","

\* _expand_dollars raises on the match m ("$" and group 1)
DollarsRaises(m) ==
  LET parts == Split(Tail(m), ".")
  IN  /\ Len(parts) <= 2
      /\ \/ IntRaises(parts[1])
         \/ Len(parts) > 1 /\ IntRaises(parts[2])

dollar_unit(dollars) ==
  IF dollars = 1 THEN <<"d","o","l","l","a","r">> ELSE <<"d","o","l","l","a","r","s">>

cent_unit(cents) ==
  IF cents = 1 THEN <<"c","e","n","t">> ELSE <<"c","e","n","t","s">>

_expand_dollars(m) ==
  LET match == Tail(m)
      parts == Split(match, ".")
      dollars == IF parts[1] # <<>> THEN ParseInt(parts[1]) ELSE 0
      cents == IF Len(parts) > 1 /\ parts[2] # <<>> THEN ParseInt(parts[2]) ELSE 0
  IN  IF Len(parts) > 2 THEN match \o <<" ","d","o","l","l","a","r","s">>
      ELSE IF dollars # 0 /\ cents # 0
           THEN IntToStr(dollars) \o <<" ">> \o dollar_unit(dollars) \o <<",", " ">>
                  \o IntToStr(cents) \o <<" ">> \o cent_unit(cents)
           ELSE IF dollars # 0
                THEN IntToStr(dollars) \o <<" ">> \o dollar_unit(dollars)
                ELSE IF cents # 0
                     THEN IntToStr(cents) \o <<" ">> \o cent_unit(cents)
                     ELSE <<"z","e","r","o"," ","d","o","l","l","a","r","s">>

\* _inflect.number_to_words(m.group(0)), the match being digits and a suffix
_expand_ordinal(m) == ordinal_words(ParseInt(SubSeq(m, 1, Len(m) - 2)))

\* a variant of _expand_number: the bounds 1000 and 3000 belong to the range
_expand_number_inclusive(n) ==
  IF n >= 1000 /\ n <= 3000
  THEN IF n = 2000 THEN <<"t","w","o"," ","t","h","o","u","s","a","n","d">>
       ELSE IF n > 2000 /\ n < 2010
            THEN <<"t","w","o"," ","t","h","o","u","s","a","n","d"," ">>
                   \o number_to_words(n % 100, and_word)
            ELSE IF n % 100 = 0
                 THEN number_to_words(n \div 100, and_word) \o <<" ","h","u","n","d","r","e","d">>
                 ELSE Replace(number_to_words_group2(n, oh_word), <<",", " ">>, <<" ">>)
  ELSE number_to_words(n, <<>>)

\* _expand_number, on num = int(m.group(0))
_expand_number(n) ==
  IF n > 1000 /\ n < 3000
  THEN IF n = 2000 THEN <<"t","w","o"," ","t","h","o","u","s","a","n","d">>
       ELSE IF n > 2000 /\ n < 2010
            THEN <<"t","w","o"," ","t","h","o","u","s","a","n","d"," ">>
                   \o number_to_words(n % 100, and_word)
            ELSE IF n % 100 = 0
                 THEN number_to_words(n \div 100, and_word) \o <<" ","h","u","n","d","r","e","d">>
                 ELSE Replace(number_to_words_group2(n, oh_word), <<",", " ">>, <<" ">>)
  ELSE number_to_words(n, <<>>)

ExpandNumberRepl(m) == _expand_number(ParseInt(m))

\* normalize_numbers raises: _expand_dollars does, on one of the matches of its pass
normalize_numbers_raises(t) ==
  LET t2 == ReSub(ReSub(t, _comma_number_re, _remove_commas), _pounds_re, PoundsRepl)
      ms == ReMatches(t2, _dollars_re)
  IN  \E k \in 1..Len(ms) : DollarsRaises(ms[k])

normalize_numbers(t) ==
  LET t1 == ReSub(t, _comma_number_re, _remove_commas)
      t2 == ReSub(t1, _pounds_re, PoundsRepl)
      t3 == ReSub(t2, _dollars_re, _expand_dollars)
      t4 == ReSub(t3, _decimal_number_re, _expand_decimal_point)
      t5 == ReSub(t4, _ordinal_re, _expand_ordinal)
  IN  ReSub(t5, _number_re, ExpandNumberRepl)

_abbreviations ==
  << <<<<"m","r","s">>, <<"M","i","s","s","i","s">>>>,
     <<<<"m","r">>, <<"M","i","s","t","e","r">>>>,
     <<<<"d","r">>, <<"D","o","c","t","o","r">>>>,
     <<<<"s","t">>, <<"S","a","i","n","t">>>>,
     <<<<"c","o">>, <<"C","o","m","p","a","n","y">>>>,
     <<<<"j","r">>, <<"J","u","n","i","o","r">>>>,
     <<<<"m","a","j">>, <<"M","a","j","o","r">>>>,
     <<<<"g","e","n">>, <<"G","e","n","e","r","a","l">>>>,
     <<<<"d","r","s">>, <<"D","o","c","t","o","r","s">>>>,
     <<<<"r","e","v">>, <<"R","e","v","e","r","e","n","d">>>>,
     <<<<"l","t">>, <<"L","i","e","u","t","e","n","a","n","t">>>>,
     <<<<"h","o","n">>, <<"H","o","n","o","r","a","b","l","e">>>>,
     <<<<"s","g","t">>, <<"S","e","r","g","e","a","n","t">>>>,
     <<<<"c","a","p","t">>, <<"C","a","p","t","a","i","n">>>>,
     <<<<"e","s","q">>, <<"E","s","q","u","i","r","e">>>>,
     <<<<"l","t","d">>, <<"L","i","m","i","t","e","d">>>>,
     <<<<"c","o","l">>, <<"C","o","l","o","n","e","l">>>>,
     <<<<"f","t">>, <<"F","o","r","t">>>>,
     <<<<"e","t","c">>, <<"e","t","c","e","t","e","r","a">>>> >>

\* re.compile(fr"\b{abbreviation}\.", re.IGNORECASE), matched at index i of s
AbbreviationMatch(s, i, abbreviation) ==
  LET n == Len(abbreviation)
  IN  IF /\ i + n <= Len(s)
         /\ s[i + n] = "."
         /\ \A k \in 1..n : LowerChar(s[i + k - 1]) = abbreviation[k]
         /\ i = 1 \/ ~IsWordChar(s[i - 1])
      THEN i + n
      ELSE 0

\* the loop of expand_abbreviations over _abbreviations[k..]
RECURSIVE ExpandFrom(_, _)
ExpandFrom(t, k) ==
  IF k > Len(_abbreviations) THEN t
  ELSE ExpandFrom(ReSub(t, LAMBDA s, i : AbbreviationMatch(s, i, _abbreviations[k][1]),
                           LAMBDA m : _abbreviations[k][2]),
                  k + 1)

expand_abbreviations(t) == ExpandFrom(t, 1)

\* a variant of collapse_whitespace: the text is returned as it came
collapse_whitespace_skipped(t) == t

\* re.sub(_whitespace_re, " ", text)
collapse_whitespace(t) == CollapseRuns(t)

SentencePunctuation == {".", ",", "!", "?"}

\* dash_pattern = r"(?<=[.,!?] )-- "
dash_pattern(s, i) ==
  IF /\ StartsAt(s, i, <<"-","-"," ">>)
     /\ i >= 3 /\ s[i - 1] = " " /\ s[i - 2] \in SentencePunctuation
  THEN i + 2
  ELSE 0

\* parentheses_pattern = r"(?<=[.,!?] )[\(\[]|[\)\]](?=[.,!?])|^[\(\[]|[\)\]]$"
parentheses_pattern(s, i) ==
  IF \/ /\ s[i] \in {"(", "["}
        /\ i >= 3 /\ s[i - 1] = " " /\ s[i - 2] \in SentencePunctuation
     \/ /\ s[i] \in {")", "]"}
        /\ i < Len(s) /\ s[i + 1] \in SentencePunctuation
     \/ /\ s[i] \in {"(", "["}
        /\ i = 1
     \/ /\ s[i] \in {")", "]"}
        /\ \/ i = Len(s)
           \/ i = Len(s) - 1 /\ s[Len(s)] = "\n"
  THEN i
  ELSE 0

Removed(m) == <<>>

normalize_punctuation(t) ==
  LET t1 == Replace(t, <<";">>, <<",">>)
      t2 == Replace(t1, <<":">>, <<",">>)
      t3 == ReSub(t2, dash_pattern, Removed)
      t4 == Replace(t3, <<" ","-","-">>, <<",">>)
      t5 == Replace(t4, <<" ","-"," ">>, <<",", " ">>)
      t6 == Replace(t5, <<"-">>, <<" ">>)
      t7 == ReSub(t6, parentheses_pattern, Removed)
      t8 == Replace(t7, <<")">>, <<",">>)
      t9 == Replace(t8, <<" ","(">>, <<",", " ">>)
      t10 == Replace(t9, <<"]">>, <<",">>)
  IN  Replace(t10, <<" ","[">>, <<",", " ">>)

add_punctuation(t) ==
  IF Len(t) = 0 THEN t
  ELSE IF t[Len(t)] \notin {"!", ",", ".", ":", ";", "?"} THEN t \o <<".">>
       ELSE t

-----------------------------------------------------------------------------
(* src/text/en/processor.py: the symbol table.  A symbol is a string: a     *)
(* control name, one character, or "@" and the name of a phonetic unit.     *)

_pad == <<"_","P","A","D","_">>
_eos == <<"_","E","O","S","_">>
_unk == <<"_","U","N","K","_">>

_punctuation == <<"!","'","(",")",",","-",".",":",";","?"," ">>

_english_characters == upper_letters \o lower_letters

\* the argument of set([...]): of its 84 phonetic units the model keeps the
\* ones its dictionaries use
_cmudict_symbols ==
  { <<"A","E","1">>, <<"A","H","0">>, <<"T">> }

\* list(s): one symbol per character
CharSymbols(s) == [i \in 1..Len(s) |-> <<s[i]>>]

\* the orders in which iterating a set of strings can yield its elements: the
\* order follows the strings' hashes, which differ from process to process
IterationOrders(S) ==
  { o \in [1..Cardinality(S) -> S] : \A i, j \in 1..Cardinality(S) : o[i] = o[j] => i = j }

\* _arpabet = ["@" + s for s in _cmudict_symbols], the set iterated in order o
_arpabet(o) == [i \in 1..Len(o) |-> <<"@">> \o o[i]]

\* symbols = [_pad, _eos, _unk] + list(_english_characters) + list(_punctuation) + _arpabet
SymbolList(o) ==
  <<_pad, _eos, _unk>> \o CharSymbols(_english_characters) \o CharSymbols(_punctuation)
    \o _arpabet(o)

\* the lists `symbols` a process can build at import
SymbolLists == { SymbolList(o) : o \in IterationOrders(_cmudict_symbols) }

\* s in {s: i for i, s in enumerate(tbl)}
InTable(tbl, s) == \E i \in 1..Len(tbl) : tbl[i] = s

\* {s: i for i, s in enumerate(tbl)}[s]
IdIn(tbl, s) ==
  (CHOOSE i \in 1..Len(tbl) : tbl[i] = s /\ \A j \in (i + 1)..Len(tbl) : tbl[j] # s) - 1

_symbol_to_id(s) == IdIn(symbols, s)

_keep_symbols(s) == InTable(symbols, s) /\ s \notin {_pad, _eos}

\* a variant of _symbols_to_sequence: a symbol outside the table is encoded as _unk
\* instead of being dropped
_symbols_to_sequence_unk(syms) ==
  [i \in 1..Len(syms) |->
     IF _keep_symbols(syms[i]) THEN _symbol_to_id(syms[i]) ELSE _symbol_to_id(_unk)]

\* [_symbol_to_id[s] for s in syms if _keep_symbols(s)]
RECURSIVE _symbols_to_sequence(_)
_symbols_to_sequence(syms) ==
  IF syms = <<>> THEN <<>>
  ELSE (IF _keep_symbols(syms[1]) THEN <<_symbol_to_id(syms[1])>> ELSE <<>>)
         \o _symbols_to_sequence(Tail(syms))

\* _symbols_to_sequence(["@" + s for s in text.split()])
_arpabet_to_sequence(t) ==
  CHOOSE ids \in { _symbols_to_sequence([i \in 1..Len(items) |-> <<"@">> \o items[i]]) :
                     items \in {SplitWhitespace(t)} } : TRUE

\* "." of a regular expression: any character but a newline
Dot(c) == c # "\n"

\* a variant of _curly_re: the end of the text closes a brace that nothing closes
_curly_re_unterminated(t) ==
  LET Closes(i, j) == j >= i + 2 /\ j <= Len(t) /\ t[j] = "}"
      Opens(i) == t[i] = "{" /\ i < Len(t)
  IN  IF \E i \in 1..Len(t) : Opens(i)
      THEN LET i == CHOOSE a \in 1..Len(t) : Opens(a) /\ \A b \in 1..(a - 1) : ~Opens(b)
           IN  IF \E j \in 1..Len(t) : Closes(i, j)
               THEN <<i, CHOOSE a \in 1..Len(t) : Closes(i, a) /\ \A b \in 1..(a - 1) : ~Closes(i, b)>>
               ELSE <<i, Len(t) + 1>>
      ELSE <<0, 0>>

\* _curly_re = r'(.*?)\{(.+?)\}(.*)' matched at the start of t: <<i, j>>, the
\* indices of the braces that delimit group 2, or <<0, 0>> when there is no match.
\* Both groups are lazy: the first "{" that a "}" can follow, and the first "}"
\* at least one character after it.
_curly_re(t) ==
  LET Closes(i, j) ==
        /\ j >= i + 2 /\ j <= Len(t)
        /\ t[j] = "}"
        /\ \A k \in (i + 1)..(j - 1) : Dot(t[k])
      Opens(i) ==
        /\ t[i] = "{"
        /\ \A k \in 1..(i - 1) : Dot(t[k])
        /\ \E j \in 1..Len(t) : Closes(i, j)
  IN  IF \E i \in 1..Len(t) : Opens(i)
      THEN LET i == CHOOSE a \in 1..Len(t) : Opens(a) /\ \A b \in 1..(a - 1) : ~Opens(b)
               j == CHOOSE a \in 1..Len(t) : Closes(i, a) /\ \A b \in 1..(a - 1) : ~Closes(i, b)
           IN  <<i, j>>
      ELSE <<0, 0>>

\* a variant of m.group(3): the whole text is kept
Group3_whole(t, j) == t

\* m.group(3): "(.*)" runs to the end of the line
Group3(t, j) == IF j >= Len(t) THEN <<>> ELSE SubSeq(t, j + 1, RunEnd(t, j + 1, Dot))

\* a variant of _get_pronunciation: the closing brace is left out
_get_pronunciation_unclosed(dict, word, draw) ==
  IF Upper(word) \notin DOMAIN dict THEN word
  ELSE IF draw THEN <<"{">> \o dict[Upper(word)] ELSE word

\* _get_pronunciation(cmudict, word); draw is the outcome of random() < 0.5
_get_pronunciation(dict, word, draw) ==
  IF Upper(word) \notin DOMAIN dict THEN word
  ELSE IF draw THEN <<"{">> \o dict[Upper(word)] \o <<"}">> ELSE word

\* the indices of the words of t for which _get_pronunciation calls random()
Drawn(dict, t) ==
  LET words == Split(t, " ")
  IN  { i \in 1..Len(words) : Upper(words[i]) \in DOMAIN dict }

\* a variant of mix_pronunciation: the words are joined without a separator
mix_pronunciation_unspaced(dict, t, chosen) ==
  LET words == Split(t, " ")
  IN  Join([i \in 1..Len(words) |->
              IF Upper(words[i]) \in DOMAIN dict /\ i \in chosen
              THEN <<"{">> \o dict[Upper(words[i])] \o <<"}">>
              ELSE words[i]], <<>>)

\* mix_pronunciation(cmudict, text); chosen holds the indices of the words
\* whose draw came out below 0.5
mix_pronunciation(dict, t, chosen) ==
  LET words == Split(t, " ")
  IN  Join([i \in 1..Len(words) |-> _get_pronunciation(dict, words[i], i \in chosen)], <<" ">>)

\* the loop of text_to_sequence as a function of the text it starts with: the IDs
\* it adds to `sequence`
RECURSIVE EncodeText(_)
EncodeText(t) ==
  IF Len(t) = 0 THEN <<>>
  ELSE LET m == _curly_re(t)
       IN  IF m = <<0, 0>> THEN _symbols_to_sequence(CharSymbols(t))
           ELSE _symbols_to_sequence(CharSymbols(SubSeq(t, 1, m[1] - 1)))
                  \o _arpabet_to_sequence(SubSeq(t, m[1] + 1, m[2] - 1))
                  \o EncodeText(Group3(t, m[2]))

-----------------------------------------------------------------------------
(* Inputs.                                                                 *)

MaxLen == 3

\* the strings over alphabet A of at most n characters
Strings(A, n) == UNION { [1..k -> A] : k \in 0..n }

\* raw texts: numerals, currency, ordinals and abbreviations
NumeralAlphabet == {"0", "1", "2", ",", ".", "$", "s", "t", " "}

\* raw texts: words, braces, whitespace and punctuation
WordAlphabet == {"a", "t", " ", "\n", "{", "}", ";", "-"}

RawTexts == Strings(NumeralAlphabet, MaxLen) \cup Strings(WordAlphabet, MaxLen)

\* transcriptions as load_cmudict reads them: unit names separated by single spaces
Dictionaries ==
  { (<<"A">> :> <<"A","H","0">>) @@ (<<"A","T">> :> <<"A","E","1"," ","T">>),
    (<<"A">> :> <<"A","H","0">>) @@ (<<>> :> <<"T">>) }

-----------------------------------------------------------------------------
(* text_to_sequence(cmudict, raw), one action per call and per iteration.   *)

Init ==
  /\ symbols \in SymbolLists
  /\ symbols2 = <<>>
  /\ raw \in RawTexts
  /\ cmudict \in Dictionaries
  /\ pc = "add_punctuation"
  /\ text = raw
  /\ sequence = <<>>
  /\ stages = <<>>
  /\ normalized = <<>>
  /\ draws = {}
  /\ mixed = <<>>
  /\ num = 0
  /\ out = <<>>

\* normalize_text: text = add_punctuation(text)
AddPunctuation ==
  /\ pc = "add_punctuation"
  /\ text' = add_punctuation(text)
  /\ stages' = Append(stages, "add_punctuation")
  /\ pc' = "normalize_numbers"
  /\ UNCHANGED <<raw, cmudict, draws, normalized, mixed, sequence, symbols, symbols2, num, out>>

\* normalize_text: text = normalize_numbers(text); a ValueError of _expand_dollars
\* leaves text_to_sequence
NormalizeNumbers ==
  /\ pc = "normalize_numbers"
  /\ stages' = Append(stages, "normalize_numbers")
  /\ \/ /\ normalize_numbers_raises(text)
        /\ pc' = "raised"
        /\ text' = text
     \/ /\ ~normalize_numbers_raises(text)
        /\ text' = normalize_numbers(text)
        /\ pc' = "expand_abbreviations"
  /\ UNCHANGED <<raw, cmudict, draws, normalized, mixed, sequence, symbols, symbols2, num, out>>

\* normalize_text: text = expand_abbreviations(text)
ExpandAbbreviations ==
  /\ pc = "expand_abbreviations"
  /\ text' = expand_abbreviations(text)
  /\ stages' = Append(stages, "expand_abbreviations")
  /\ pc' = "collapse_whitespace"
  /\ UNCHANGED <<raw, cmudict, draws, normalized, mixed, sequence, symbols, symbols2, num, out>>

\* normalize_text: text = collapse_whitespace(text); return text
CollapseWhitespace ==
  /\ pc = "collapse_whitespace"
  /\ text' = collapse_whitespace(text)
  /\ normalized' = text'
  /\ stages' = Append(stages, "collapse_whitespace")
  /\ pc' = "mix_pronunciation"
  /\ UNCHANGED <<raw, cmudict, draws, mixed, sequence, symbols, symbols2, num, out>>

\* text = mix_pronunciation(cmudict, text)
MixPronunciation ==
  /\ pc = "mix_pronunciation"
  /\ \E chosen \in SUBSET Drawn(cmudict, text) :
       /\ draws' = chosen
       /\ text' = mix_pronunciation(cmudict, text, chosen)
  /\ mixed' = text'
  /\ pc' = "loop"
  /\ UNCHANGED <<raw, cmudict, normalized, stages, sequence, symbols, symbols2, num, out>>

\* while len(text): m = _curly_re.match(text); m matched
LoopMatch ==
  /\ pc = "loop"
  /\ Len(text) # 0
  /\ _curly_re(text) # <<0, 0>>
  /\ \E m \in {_curly_re(text)} :
         /\ sequence' = sequence
                          \o _symbols_to_sequence(CharSymbols(SubSeq(text, 1, m[1] - 1)))
                          \o _arpabet_to_sequence(SubSeq(text, m[1] + 1, m[2] - 1))
         /\ text' = Group3(text, m[2])
  /\ pc' = "loop"
  /\ UNCHANGED <<raw, cmudict, draws, normalized, stages, mixed, symbols, symbols2, num, out>>

\* while len(text): if not m: sequence += _symbols_to_sequence(text); break
LoopNoMatch ==
  /\ pc = "loop"
  /\ Len(text) # 0
  /\ _curly_re(text) = <<0, 0>>
  /\ sequence' = sequence \o _symbols_to_sequence(CharSymbols(text))
  /\ pc' = "append_eos"
  /\ UNCHANGED <<raw, text, cmudict, draws, normalized, stages, mixed, symbols, symbols2, num, out>>

\* while len(text): the text is empty
LoopExit ==
  /\ pc = "loop"
  /\ Len(text) = 0
  /\ pc' = "append_eos"
  /\ UNCHANGED <<raw, text, cmudict, draws, normalized, stages, mixed, sequence, symbols,
                 symbols2, num, out>>

\* sequence.append(_symbol_to_id[_eos]); return sequence
AppendEos ==
  /\ pc = "append_eos"
  /\ sequence' = Append(sequence, _symbol_to_id(_eos))
  /\ pc' = "done"
  /\ UNCHANGED <<raw, text, cmudict, draws, normalized, stages, mixed, symbols, symbols2, num, out>>

Next ==
  \/ AddPunctuation
  \/ NormalizeNumbers
  \/ ExpandAbbreviations
  \/ CollapseWhitespace
  \/ MixPronunciation
  \/ LoopMatch
  \/ LoopNoMatch
  \/ LoopExit
  \/ AppendEos

Spec == Init /\ [][Next]_vars

-----------------------------------------------------------------------------
(* Two processes import text.en.processor: each builds its own `symbols`.   *)

InitLoad ==
  /\ pc = "import"
  /\ symbols = <<>>
  /\ symbols2 = <<>>
  /\ raw = <<>> /\ text = <<>> /\ cmudict = <<>> /\ draws = {} /\ normalized = <<>>
  /\ stages = <<>> /\ mixed = <<>> /\ sequence = <<>> /\ num = 0 /\ out = <<>>

\* the first process runs the module: lines 16 to 34
Import ==
  /\ pc = "import"
  /\ symbols' \in SymbolLists
  /\ pc' = "import2"
  /\ UNCHANGED <<raw, text, cmudict, draws, normalized, stages, mixed, sequence, symbols2, num, out>>

\* the second process runs the module
Import2 ==
  /\ pc = "import2"
  /\ symbols2' \in SymbolLists
  /\ pc' = "loaded"
  /\ UNCHANGED <<raw, text, cmudict, draws, normalized, stages, mixed, sequence, symbols, num, out>>

\* both processes look the symbol s up in their _symbol_to_id
Lookup ==
  /\ pc = "loaded"
  /\ \E s \in Range(symbols) : out' = <<s, IdIn(symbols, s), IdIn(symbols2, s)>>
  /\ pc' = "looked_up"
  /\ UNCHANGED <<raw, text, cmudict, draws, normalized, stages, mixed, sequence, symbols,
                 symbols2, num>>

NextLoad == Import \/ Import2 \/ Lookup

SpecLoad == InitLoad /\ [][NextLoad]_vars

-----------------------------------------------------------------------------
(* _expand_number on every integer up to MaxNumber.                         *)

MaxNumber == 3100

InitExpandNumber ==
  /\ pc = "expand_number"
  /\ num \in 0..MaxNumber
  /\ out = <<>>
  /\ symbols = <<>> /\ symbols2 = <<>>
  /\ raw = <<>> /\ text = <<>> /\ cmudict = <<>> /\ draws = {} /\ normalized = <<>>
  /\ stages = <<>> /\ mixed = <<>> /\ sequence = <<>>

ExpandNumber ==
  /\ pc = "expand_number"
  /\ out' = _expand_number(num)
  /\ pc' = "expanded"
  /\ UNCHANGED <<raw, text, cmudict, draws, normalized, stages, mixed, sequence, symbols,
                 symbols2, num>>

NextExpandNumber == ExpandNumber

SpecExpandNumber == InitExpandNumber /\ [][NextExpandNumber]_vars

-----------------------------------------------------------------------------
(* normalize_numbers and expand_abbreviations, each run on a text and then  *)
(* on its own output.                                                       *)

MaxExpanderLen == 4

ExpanderAlphabet == {"1", "2", ",", ".", "$", "£", "s", "t", "S", " "}

\* the numeral and abbreviation examples of the specification's section 8
ExpanderExamples ==
  { <<"1",",","2","3","4">>,
    <<"$","5",".","5","0">>,
    <<"1","9","8","4">>,
    <<"2","0","0","0">>,
    <<"3","r","d">>,
    <<"D","r","."," ","S","m","i","t","h">>,
    <<"m","r",".","s",".">>,
    <<"d","r",".","s",".">> }

ExpanderTexts == Strings(ExpanderAlphabet, MaxExpanderLen) \cup ExpanderExamples

InitExpanders ==
  /\ pc \in {"normalize_numbers", "expand_abbreviations"}
  /\ raw \in ExpanderTexts
  /\ text = raw
  /\ out = <<>>
  /\ symbols = <<>> /\ symbols2 = <<>>
  /\ cmudict = <<>> /\ draws = {} /\ normalized = <<>>
  /\ stages = <<>> /\ mixed = <<>> /\ sequence = <<>> /\ num = 0

\* text = normalize_numbers(raw)
NumbersOnce ==
  /\ pc = "normalize_numbers"
  /\ \/ /\ normalize_numbers_raises(text)
        /\ pc' = "raised"
        /\ text' = text
     \/ /\ ~normalize_numbers_raises(text)
        /\ text' = normalize_numbers(text)
        /\ pc' = "normalize_numbers_again"
  /\ UNCHANGED <<raw, cmudict, draws, normalized, stages, mixed, sequence, symbols, symbols2,
                 num, out>>

\* out = normalize_numbers(text)
NumbersAgain ==
  /\ pc = "normalize_numbers_again"
  /\ ~normalize_numbers_raises(text)
  /\ out' = normalize_numbers(text)
  /\ pc' = "numbers_done"
  /\ UNCHANGED <<raw, text, cmudict, draws, normalized, stages, mixed, sequence, symbols,
                 symbols2, num>>

\* text = expand_abbreviations(raw)
AbbreviationsOnce ==
  /\ pc = "expand_abbreviations"
  /\ text' = expand_abbreviations(text)
  /\ pc' = "expand_abbreviations_again"
  /\ UNCHANGED <<raw, cmudict, draws, normalized, stages, mixed, sequence, symbols, symbols2,
                 num, out>>

\* out = expand_abbreviations(text)
AbbreviationsAgain ==
  /\ pc = "expand_abbreviations_again"
  /\ out' = expand_abbreviations(text)
  /\ pc' = "abbreviations_done"
  /\ UNCHANGED <<raw, text, cmudict, draws, normalized, stages, mixed, sequence, symbols,
                 symbols2, num>>

NextExpanders == NumbersOnce \/ NumbersAgain \/ AbbreviationsOnce \/ AbbreviationsAgain

SpecExpanders == InitExpanders /\ [][NextExpanders]_vars

-----------------------------------------------------------------------------
(* normalize_punctuation on a text.                                         *)

MaxPunctuationLen == 4

PunctuationAlphabet == {";", ":", "-", " ", "(", ")", "[", "]", ".", "a"}

InitPunctuation ==
  /\ pc = "normalize_punctuation"
  /\ raw \in Strings(PunctuationAlphabet, MaxPunctuationLen)
  /\ text = raw
  /\ out = <<>>
  /\ symbols = <<>> /\ symbols2 = <<>>
  /\ cmudict = <<>> /\ draws = {} /\ normalized = <<>>
  /\ stages = <<>> /\ mixed = <<>> /\ sequence = <<>> /\ num = 0

NormalizePunctuation ==
  /\ pc = "normalize_punctuation"
  /\ out' = normalize_punctuation(text)
  /\ pc' = "punctuation_done"
  /\ UNCHANGED <<raw, text, cmudict, draws, normalized, stages, mixed, sequence, symbols,
                 symbols2, num>>

NextPunctuation == NormalizePunctuation

SpecPunctuation == InitPunctuation /\ [][NextPunctuation]_vars

-----------------------------------------------------------------------------
(* text_to_sequence on raw texts of braces, from the call to the return:    *)
(* lines 95 to 99 are one step, each iteration of the loop is one step.     *)
(* The call runs to its return; no step of it waits on anything.            *)

MaxBraceLen == 5

BraceAlphabet == {"{", "}", "T", " "}

\* the module is imported and the dictionary loaded; text_to_sequence is not called yet
InitEncoder ==
  /\ symbols \in SymbolLists
  /\ symbols2 = <<>>
  /\ cmudict \in Dictionaries
  /\ pc = "call"
  /\ raw = <<>>
  /\ text = <<>>
  /\ sequence = <<>>
  /\ stages = <<>>
  /\ normalized = <<>>
  /\ draws = {}
  /\ mixed = <<>>
  /\ num = 0
  /\ out = <<>>

\* text_to_sequence(text, cmudict): sequence = []; text = normalize_text(text);
\* text = mix_pronunciation(cmudict, text)
CallEncoder ==
  /\ pc = "call"
  /\ \E t \in Strings(BraceAlphabet, MaxBraceLen) :
       /\ raw' = t
       /\ ~normalize_numbers_raises(add_punctuation(t))
       /\ normalized' =
            collapse_whitespace(expand_abbreviations(normalize_numbers(add_punctuation(t))))
  /\ \E chosen \in SUBSET Drawn(cmudict, normalized') :
       /\ draws' = chosen
       /\ mixed' = mix_pronunciation(cmudict, normalized', chosen)
  /\ text' = mixed'
  /\ stages' = <<"add_punctuation", "normalize_numbers", "expand_abbreviations",
                 "collapse_whitespace">>
  /\ pc' = "loop"
  /\ UNCHANGED <<cmudict, sequence, symbols, symbols2, num, out>>

\* a step of text_to_sequence after line 99
EncoderStep == LoopMatch \/ LoopNoMatch \/ LoopExit \/ AppendEos

NextEncoder == CallEncoder \/ EncoderStep

\* once called, text_to_sequence takes its next step
SpecEncoder == InitEncoder /\ [][NextEncoder]_vars /\ WF_vars(EncoderStep)

-----------------------------------------------------------------------------
(* Properties of text_to_sequence, checked under Spec.                      *)

PadId == IdIn(symbols, _pad)
EosId == IdIn(symbols, _eos)
UnkId == IdIn(symbols, _unk)

\* C1: the sequence text_to_sequence returns is non-empty, ends with the
\* end-of-sequence ID, holds that ID exactly once and holds neither the pad ID nor
\* the unknown ID; for the empty raw text and a dictionary without an entry for
\* the empty word it is the one-element sequence of the end-of-sequence ID.
C1_SequenceEndsWithOneEos ==
  pc = "done" =>
    /\ Len(sequence) >= 1
    /\ sequence[Len(sequence)] = EosId
    /\ Cardinality({ i \in 1..Len(sequence) : sequence[i] = EosId }) = 1
    /\ \A i \in 1..Len(sequence) : sequence[i] # PadId /\ sequence[i] # UnkId
    /\ (raw = <<>> /\ <<>> \notin DOMAIN cmudict) => sequence = <<EosId>>

\* a call has returned a sequence with literal and phonetic IDs in it
C1_Witness ==
  /\ pc = "done"
  /\ draws # {}
  /\ Len(sequence) >= 4
  /\ \E i \in 1..Len(raw) : <<raw[i]>> \notin Range(symbols)

NoAdjacentSpaces(t) == \A i \in 1..(Len(t) - 1) : ~(t[i] = " " /\ t[i + 1] = " ")

OnlyPlainSpaces(t) == \A i \in 1..Len(t) : IsSpace(t[i]) => t[i] = " "

NoDeprecatedPunctuation(t) == \A i \in 1..Len(t) : t[i] \notin {";", ":", "-"}

\* C3, as claimed: the text handed to the mixer holds no ';', ':' or '-' and only
\* single interior spaces.
C3_NoDeprecatedPunctuationAtMixer ==
  pc = "mix_pronunciation" =>
    /\ NoDeprecatedPunctuation(text)
    /\ NoAdjacentSpaces(text)

\* C3, amended: the stages before the mixer are add_punctuation, normalize_numbers,
\* expand_abbreviations and collapse_whitespace, in this order, with no punctuation
\* normalizer among them; the text handed to the mixer holds no whitespace but
\* single spaces.
C3_StagesAndSingleSpaces ==
  /\ pc = "mix_pronunciation" =>
       /\ text = normalized
       /\ NoAdjacentSpaces(text)
       /\ OnlyPlainSpaces(text)
  /\ pc \in {"mix_pronunciation", "loop", "append_eos", "done"} =>
       stages = <<"add_punctuation", "normalize_numbers", "expand_abbreviations",
                  "collapse_whitespace">>

\* the mixer is handed a text whose raw form had a run of whitespace, and in which
\* deprecated punctuation is left
C3_Witness ==
  /\ pc = "mix_pronunciation"
  /\ \E i \in 1..(Len(raw) - 1) : IsSpace(raw[i]) /\ IsSpace(raw[i + 1])
  /\ ~NoDeprecatedPunctuation(text)

\* the first "{" of t that no "}" follows, 0 when there is none
OpenBrace(t) ==
  LET Open(i) == t[i] = "{" /\ \A j \in (i + 1)..Len(t) : t[j] # "}"
  IN  IF \E i \in 1..Len(t) : Open(i)
      THEN CHOOSE i \in 1..Len(t) : Open(i) /\ \A j \in 1..(i - 1) : ~Open(j)
      ELSE 0

\* C4, as claimed: when the mixed text has an opening brace that no closing brace
\* follows, what comes after that brace is encoded as a phonetic span, split on
\* whitespace into phonetic-unit symbols.
C4_UnterminatedBraceIsPhonetic ==
  (pc = "done" /\ OpenBrace(mixed) # 0) =>
    sequence = EncodeText(SubSeq(mixed, 1, OpenBrace(mixed) - 1))
                 \o _arpabet_to_sequence(From(mixed, OpenBrace(mixed) + 1))
                 \o <<EosId>>

\* C4, amended: when the mixed text has an opening brace that no closing brace
\* follows, the encoder finds no span there: the brace is dropped and what comes
\* after it is encoded character by character as literal text.
C4_UnterminatedBraceIsLiteral ==
  (pc = "done" /\ OpenBrace(mixed) # 0) =>
    sequence = EncodeText(SubSeq(mixed, 1, OpenBrace(mixed) - 1))
                 \o _symbols_to_sequence(CharSymbols(From(mixed, OpenBrace(mixed) + 1)))
                 \o <<EosId>>

\* a call has returned for a mixed text with an unterminated brace followed by
\* characters of the vocabulary
C4_Witness ==
  /\ pc = "done"
  /\ OpenBrace(mixed) # 0
  /\ _symbols_to_sequence(CharSymbols(From(mixed, OpenBrace(mixed) + 1))) # <<>>

HasBrace(t) == \E i \in 1..Len(t) : t[i] \in {"{", "}"}

\* the depth of open braces after the first i characters of t
RECURSIVE BraceDepth(_, _)
BraceDepth(t, i) ==
  IF i = 0 THEN 0
  ELSE BraceDepth(t, i - 1)
         + (IF t[i] = "{" THEN 1 ELSE IF t[i] = "}" THEN -1 ELSE 0)

\* braces pair up and are never nested
BracesFlat(t) ==
  /\ \A i \in 0..Len(t) : BraceDepth(t, i) \in {0, 1}
  /\ BraceDepth(t, Len(t)) = 0

\* every "{" starts a word and every "}" ends one
BracesAtWordBoundaries(t) ==
  \A i \in 1..Len(t) :
    /\ t[i] = "{" => (i = 1 \/ t[i - 1] = " ")
    /\ t[i] = "}" => (i = Len(t) \/ t[i + 1] = " ")

\* every span between a "{" and the next "}" holds names of phonetic units only
SpansArePhonetic(t) ==
  \A i, j \in 1..Len(t) :
    (/\ i < j /\ t[i] = "{" /\ t[j] = "}"
     /\ \A k \in (i + 1)..(j - 1) : t[k] # "}") =>
      /\ j > i + 1
      /\ \A w \in Range(Split(SubSeq(t, i + 1, j - 1), " ")) : w \in _cmudict_symbols

MixedTextWellFormed(t) ==
  /\ BracesFlat(t)
  /\ BracesAtWordBoundaries(t)
  /\ SpansArePhonetic(t)

\* C5, as claimed: for every raw text the mixed text handed to the encoder has
\* braces that are never nested, that sit at word boundaries, and that enclose
\* phonetic-unit tokens only.
C5_MixedTextWellFormed ==
  pc \in {"loop", "append_eos", "done"} => MixedTextWellFormed(mixed)

\* C5, amended: the same for every raw text that holds no brace character.
C5_MixedTextWellFormedWithoutRawBraces ==
  (pc \in {"loop", "append_eos", "done"} /\ ~HasBrace(raw)) => MixedTextWellFormed(mixed)

\* the mixer has substituted two words of a raw text without braces
C5_Witness ==
  /\ pc = "loop"
  /\ text = mixed
  /\ ~HasBrace(raw)
  /\ Cardinality(draws) >= 2

\* C10: the mixer emits one item per space-delimited token, in the order of the
\* tokens, joined by single spaces: a token without a dictionary entry unchanged,
\* whatever the draws, and a token with an entry either unchanged or as one
\* brace-delimited span holding its transcription.
C10_MixerDecidesEachToken ==
  pc \in {"loop", "append_eos", "done"} =>
    LET tokens == Split(normalized, " ")
    IN  /\ \A i \in draws : i \in 1..Len(tokens) /\ Upper(tokens[i]) \in DOMAIN cmudict
        /\ mixed = Join([i \in 1..Len(tokens) |->
                           IF i \in draws
                           THEN <<"{">> \o cmudict[Upper(tokens[i])] \o <<"}">>
                           ELSE tokens[i]], <<" ">>)

\* the mixer has kept a token without an entry and substituted one with an entry
C10_Witness ==
  /\ pc = "loop"
  /\ text = mixed
  /\ draws # {}
  /\ \E i \in 1..Len(Split(normalized, " ")) :
       Upper(Split(normalized, " ")[i]) \notin DOMAIN cmudict

-----------------------------------------------------------------------------
(* The symbol table of two processes, checked under SpecLoad.               *)

\* C2: every symbol receives the same ID in every construction of the vocabulary:
\* two loads of the module never give one symbol two IDs.
C2_IdsStableAcrossLoads ==
  pc \in {"loaded", "looked_up"} =>
    \A s \in Range(symbols) :
      InTable(symbols2, s) /\ IdIn(symbols, s) = IdIn(symbols2, s)

-----------------------------------------------------------------------------
(* The numeral and abbreviation expanders, checked under SpecExpanders.     *)

\* C6, as claimed: normalize_numbers maps "1,234" to
\* "one thousand two hundred thirty-four".
C6_CommaNumeralIsCardinal ==
  (pc = "normalize_numbers_again" /\ raw = <<"1",",","2","3","4">>) =>
    text = <<"o","n","e"," ","t","h","o","u","s","a","n","d"," ","t","w","o"," ",
             "h","u","n","d","r","e","d"," ","t","h","i","r","t","y","-","f","o","u","r">>

\* C6, amended: normalize_numbers maps "1,234" to "twelve thirty-four": the comma is
\* stripped and the numeral 1234, which lies between 1000 and 3000, is read as two
\* pairs of digits.
C6_CommaNumeralIsReadInPairs ==
  (pc = "normalize_numbers_again" /\ raw = <<"1",",","2","3","4">>) =>
    text = <<"t","w","e","l","v","e"," ","t","h","i","r","t","y","-","f","o","u","r">>

\* normalize_numbers has returned for "1,234"
C6_Witness ==
  pc = "normalize_numbers_again" /\ raw = <<"1",",","2","3","4">>

HasDigit(t) == \E i \in 1..Len(t) : IsDigit(t[i])

\* t holds, at index i, the stem as a whole word (in any case) and a period after it
StemWithPeriodAt(t, i, stem) ==
  /\ i + Len(stem) <= Len(t)
  /\ \A k \in 1..Len(stem) : LowerChar(t[i + k - 1]) = stem[k]
  /\ t[i + Len(stem)] = "."
  /\ i > 1 => ~IsWordChar(t[i - 1])

HasStemWithPeriod(t) ==
  \E i \in 1..Len(t) : \E a \in 1..Len(_abbreviations) :
    StemWithPeriodAt(t, i, _abbreviations[a][1])

\* C8: run on its own output, normalize_numbers returns that output, which holds no
\* digit; run on its own output, expand_abbreviations returns that output, which
\* holds no whole-word abbreviation stem followed by a period.
C8_ExpandersIdempotent ==
  /\ pc = "normalize_numbers_again" => ~HasDigit(text) /\ ~normalize_numbers_raises(text)
  /\ pc = "numbers_done" => out = text
  /\ pc = "expand_abbreviations_again" => ~HasStemWithPeriod(text)
  /\ pc = "abbreviations_done" => out = text

\* normalize_numbers has run twice on a text with a numeral in it
C8_Witness ==
  /\ pc = "numbers_done"
  /\ HasDigit(raw)
  /\ text # raw

-----------------------------------------------------------------------------
(* _expand_number, checked under SpecExpandNumber.                          *)

\* the reading of a pair of digits, 10 to 99
PairReading(k) == number_to_words(k, <<>>)

\* the reading C7 gives the integer n
ClaimedReading(n) ==
  IF n = 2000 THEN <<"t","w","o"," ","t","h","o","u","s","a","n","d">>
  ELSE IF n >= 2001 /\ n <= 2009
       THEN <<"t","w","o"," ","t","h","o","u","s","a","n","d"," ">> \o unit[n - 2000]
       ELSE IF n >= 1001 /\ n <= 2999 /\ n % 100 = 0
            THEN PairReading(n \div 100) \o <<" ","h","u","n","d","r","e","d">>
            ELSE IF n >= 1001 /\ n <= 2999
                 THEN PairReading(n \div 100) \o <<" ">>
                        \o (IF n % 100 < 10 THEN <<"o","h"," ">> \o unit[n % 100]
                            ELSE PairReading(n % 100))
                 ELSE number_to_words(n, <<>>)

\* C7: _expand_number reads 2000 as "two thousand", 2001 to 2009 as "two thousand"
\* and the ones word, another multiple of 100 between 1001 and 2999 as its hundreds
\* count and "hundred", any other integer between 1001 and 2999 as two pairs of
\* digits with a zero tens digit spoken "oh", and every integer outside 1001..2999,
\* 1000 and 3000 included, as its cardinal without "and".
C7_ExpandNumberReadings ==
  pc = "expanded" => out = ClaimedReading(num)

\* _expand_number has returned for a year read in pairs with "oh"
C7_Witness ==
  /\ pc = "expanded"
  /\ num > 1000 /\ num < 3000
  /\ num % 100 # 0 /\ num % 100 < 10
  /\ num \div 100 # 20

-----------------------------------------------------------------------------
(* normalize_punctuation, checked under SpecPunctuation.                    *)

\* C9: the output of normalize_punctuation holds no ';', ':' or '-' and no
\* parenthesis or square bracket; the empty text gives the empty text.
C9_OnlyReducedPunctuation ==
  pc = "punctuation_done" =>
    /\ \A i \in 1..Len(out) : out[i] \notin {";", ":", "-", "(", ")", "[", "]"}
    /\ raw = <<>> => out = <<>>

-----------------------------------------------------------------------------
(* normalize_text and the whole of text_to_sequence, checked under Spec.    *)

\* C11: for every non-empty raw text, the text normalize_text returns ends with one
\* of '!', ',', '.', ':', ';', '?'.
C11_NormalizedEndsWithPunctuation ==
  (pc = "mix_pronunciation" /\ raw # <<>>) =>
    /\ normalized # <<>>
    /\ normalized[Len(normalized)] \in {"!", ",", ".", ":", ";", "?"}

\* C12: text_to_sequence raises no error, whatever the input.
C12_NeverRaises ==
  pc # "raised"

-----------------------------------------------------------------------------
(* The encoder loop, checked under SpecEncoder.                             *)

\* an iteration of the loop that found a span: the loop goes on
SpanFound == pc = "loop" /\ pc' = "loop"

\* an iteration of the loop on a text without a span
NoSpanFound == pc = "loop" /\ text # <<>> /\ _curly_re(text) = <<0, 0>>

\* C13: every iteration of the encoder loop that finds a brace-delimited span
\* leaves a strictly shorter text; an iteration that finds none emits the rest as
\* literal text and leaves the loop; and the loop, once entered, leads to the
\* return of a sequence that ends with the end-of-sequence ID.
C13_EncoderLoopTerminates ==
  /\ [][SpanFound => Len(text') < Len(text)]_vars
  /\ [][NoSpanFound =>
          /\ pc' = "append_eos"
          /\ sequence' = sequence \o _symbols_to_sequence(CharSymbols(text))]_vars
  /\ (pc = "loop") ~> (pc = "done" /\ sequence # <<>> /\ sequence[Len(sequence)] = EosId)

\* the loop has found two spans in the mixed text and text_to_sequence has returned
C13_Witness ==
  /\ pc = "done"
  /\ _curly_re(mixed) # <<0, 0>>
  /\ _curly_re(Group3(mixed, _curly_re(mixed)[2])) # <<0, 0>>

=============================================================================
